---- MODULE Spec2Model ----
(***************************************************************************)
(* Model of the Calendar class of mt-addon-calendar (src/Calendar.ts).     *)
(*                                                                         *)
(* One Calendar object, its extent generator (the populateExtents          *)
(* callback) and the public operations: the constructor, setCurrentDay,    *)
(* setCurrentTime, adjustDay and adjustTime.  The private helpers          *)
(* buildExtents and getLengthOfYear are operators that thread the object   *)
(* through, since they fill the extent cache while they compute.           *)
(***************************************************************************)
EXTENDS Integers, Sequences, FiniteSets, TLC

(***************************************************************************)
(* Bounds of the model.                                                    *)
(***************************************************************************)
\* years on each side of the fallback start year the generator is defined on
YearSpan == 1
\* arguments of the operations range over -MaxArg .. MaxArg
MaxArg == 3
\* the "day" entry of the metrics table handed to the constructor, in seconds
MetricsDay == 2
\* operations that would invoke the generator more often than this for one
\* year are left out
MaxGenCalls == 2
\* the generator returns an invalid result for at most this many years
MaxInvalidYears == 1
MaxVal == 5           \* bsearch: the elements and the value sought are in 1 .. MaxVal
MaxLen == 3           \* bsearch: the arrays have up to MaxLen elements
MaxYearLen == 2       \* the loops step by step: a year has 1 .. MaxYearLen days
LensPeriod == 2       \* the loops step by step: year lengths repeat with this period

\* `props?.startYear || 2022`
FallbackStartYear == 2022

Years == {0} \cup ((FallbackStartYear - YearSpan) .. (FallbackStartYear + YearSpan))
Args == (0 - MaxArg) .. MaxArg

\* what a caller can hand to a setter: a number, or a string of digits (which
\* JavaScript converts to the number it spells where it needs a number)
NumberArg(n) == [type |-> "number", num |-> n]
StringArg(n) == [type |-> "string", num |-> n]
SetterArgs == {NumberArg(n) : n \in Args} \cup {StringArg(n) : n \in 0 .. MaxArg}

(***************************************************************************)
(* Values the generator can return.  An element of the returned array is   *)
(* an Extent object or a value of another type; the result itself is an    *)
(* array or not.                                                           *)
(***************************************************************************)
Extent(nm, len) == [type |-> "object", name |-> nm, length |-> len]
NonObject == [type |-> "number", name |-> "", length |-> 0]
\* an object with a length and no name: v.name is undefined, which as a
\* property key is "undefined"
NoNameObject == [type |-> "object", name |-> "undefined", length |-> 1]
ArrayOf(items) == [isArray |-> TRUE, items |-> items]
NotAnArray == [isArray |-> FALSE, items |-> << >>]

ValidGenResults ==
  { ArrayOf(<<Extent("A", 1)>>),
    ArrayOf(<<Extent("A", 2), Extent("B", 1)>>) }
GenResults ==
  ValidGenResults \cup { NotAnArray, ArrayOf(<<Extent("A", 1), NonObject>>),
                         ArrayOf(<<Extent("A", 1), NoNameObject>>) }

\* the generators of the model; year 0 is never asked for by the Calendar
\* (`0 || 2022`), so one valid result for it is enough
Generators ==
  { g \in [Years -> GenResults] :
      /\ g[0] = ArrayOf(<<Extent("A", 1)>>)
      /\ Cardinality({y \in Years : g[y] \notin ValidGenResults}) <= MaxInvalidYears }

VARIABLES
  gen,             \* the populateExtents callback: year -> what it returns
  genCalls,        \* how often the callback has been invoked, per year
  extentsByStart,  \* year -> sequence of internal extents
  extentsByName,   \* name -> (year -> internal extent)
  startYear, totalDays, currentDay, currentTime,
  metrics,         \* the metrics table, empty while the field is unassigned
  pc,              \* "new" before the constructor ran, "ready", "failed"
  thrown,          \* what the last operation threw: "none", "TypeError", "Error"
  thrownIndex,     \* the array index its message names, -1 when it names none
  call,            \* the last operation and its arguments
  pre,             \* the readable fields before the last operation
  bs,              \* a call of Utils.bsearch: its arguments and how it ended
  loop             \* a call of a set/adjust method run one loop round at a time

vars == <<gen, genCalls, extentsByStart, extentsByName, startYear, totalDays,
          currentDay, currentTime, metrics, pc, thrown, thrownIndex, call, pre, bs, loop>>

EmptyMap == [k \in {} |-> 0]

\* the metrics table of the options: "day" -> MetricsDay
DefaultMetrics == [day |-> MetricsDay]

\* the object as a record, with the pending exception and the return value
\* of the helper that ran last
This ==
  [ err |-> "none", errIndex |-> 0 - 1, ret |-> 0, genCalls |-> genCalls,
    extentsByStart |-> extentsByStart, extentsByName |-> extentsByName,
    startYear |-> startYear, totalDays |-> totalDays,
    currentDay |-> currentDay, currentTime |-> currentTime, metrics |-> metrics ]

\* what a caller can read of the object, and the years the cache holds
Readable(t) ==
  [ startYear |-> t.startYear, totalDays |-> t.totalDays,
    currentDay |-> t.currentDay, currentTime |-> t.currentTime,
    cached |-> DOMAIN t.extentsByStart ]

(***************************************************************************)
(* buildExtents and getLengthOfYear.  Each takes the object and gives it   *)
(* back as the call leaves it, with err set when the call throws and ret   *)
(* holding the value returned.  A step of a method that uses an            *)
(* intermediate result several times is an operator of its own, with that  *)
(* result as a parameter.                                                  *)
(***************************************************************************)
NewInternalExtent(sy, sd, e) == [startYear |-> sy, startDay |-> sd, originalExt |-> e]

\* lines 208-212: the by-name view after rv has been entered under its name
PutByName(byName, name, year, rv) ==
  IF name \in DOMAIN byName
  THEN [byName EXCEPT ![name] = (year :> rv) @@ @]
  ELSE (name :> (year :> rv)) @@ byName

\* the callback of ext.map, applied to the elements in order (index counts
\* from 1 here, from 0 in the message); it stops at the first element that is
\* not an object, after the by-name entries of the elements before it have
\* been written
\* NextStart with the running start left where it is
NextStart_Stays(start, v) == start

\* line 213: start += v.length
NextStart(start, v) == start + v.length

RECURSIVE MapExtents(_, _, _, _)
MapExtents(ext, year, index, acc) ==
  IF index > Len(ext) THEN acc
  ELSE IF ext[index].type # "object"
       THEN [acc EXCEPT !.err = "TypeError", !.errIndex = index - 1]
  ELSE MapExtents(ext, year, index + 1,
         [ err |-> "none", errIndex |-> acc.errIndex,
           out |-> Append(acc.out, NewInternalExtent(year, acc.start, ext[index])),
           extentsByName |-> PutByName(acc.extentsByName, ext[index].name, year,
                                       NewInternalExtent(year, acc.start, ext[index])),
           start |-> NextStart(acc.start, ext[index]) ])

\* the call of the generator
populateExtents(year) == gen[year]

\* StoreMapped with the by-year view made of the new year alone
StoreMapped_DropsOtherYears(called, year, m) ==
  IF m.err # "none"
  THEN [called EXCEPT !.err = m.err, !.errIndex = m.errIndex,
                      !.extentsByName = m.extentsByName]
  ELSE [called EXCEPT !.extentsByStart = (year :> m.out),
                      !.extentsByName = m.extentsByName]

\* line 200: the assignment of the mapped array, which a throw inside map skips
StoreMapped(called, year, m) ==
  IF m.err # "none"
  THEN [called EXCEPT !.err = m.err, !.errIndex = m.errIndex,
                      !.extentsByName = m.extentsByName]
  ELSE [called EXCEPT !.extentsByStart = (year :> m.out) @@ @,
                      !.extentsByName = m.extentsByName]

\* lines 194-215, with ext the generator's result
CheckAndStore(called, year, ext) ==
  IF ~ext.isArray THEN [called EXCEPT !.err = "TypeError"]
  ELSE StoreMapped(called, year,
         MapExtents(ext.items, year, 1,
           [ err |-> "none", errIndex |-> 0 - 1, out |-> << >>,
             extentsByName |-> called.extentsByName, start |-> 0 ]))

\* a year outside Years is outside the model: the operation is left out
buildExtents(t, year) ==
  IF year \in DOMAIN t.extentsByStart THEN [t EXCEPT !.err = "Error"]
  ELSE IF year \notin Years THEN [t EXCEPT !.err = "OutOfModel"]
  ELSE CheckAndStore([t EXCEPT !.genCalls[year] = @ + 1], year, populateExtents(year))

\* lines 228-230; reading a field of the last extent of an empty array throws
LengthOfCached(b, year) ==
  IF b.err # "none" THEN b
  ELSE IF Len(b.extentsByStart[year]) = 0 THEN [b EXCEPT !.err = "TypeError"]
  ELSE [b EXCEPT !.ret =
          b.extentsByStart[year][Len(b.extentsByStart[year])].startDay
          + b.extentsByStart[year][Len(b.extentsByStart[year])].originalExt.length]

\* getLengthOfYear that builds the year without looking into the cache
getLengthOfYear_AlwaysBuilds(t, year) == LengthOfCached(buildExtents(t, year), year)

getLengthOfYear(t, year) ==
  LengthOfCached(
    IF year \notin DOMAIN t.extentsByStart THEN buildExtents(t, year) ELSE t, year)

(***************************************************************************)
(* setCurrentDay, first for an argument that is a number, as adjustDay,     *)
(* adjustTime and the constructor call it.                                 *)
(***************************************************************************)
RECURSIVE RollBackward(_, _, _, _)
RECURSIVE RollForward(_, _, _, _)

\* BackwardStep with the length of the year being left added, not that of
\* the year being entered
BackwardStep_AddsYearLeft(g, n, thisYear, total) ==
  IF g.err # "none"
  THEN [t |-> g, n |-> n, thisYear |-> thisYear - 1, totalDays |-> total]
  ELSE RollBackward(g, n + total, thisYear - 1, g.ret)

\* lines 253-255, with g the object after getLengthOfYear(thisYear - 1)
BackwardStep(g, n, thisYear, total) ==
  IF g.err # "none"
  THEN [t |-> g, n |-> n, thisYear |-> thisYear - 1, totalDays |-> total]
  ELSE RollBackward(g, n + g.ret, thisYear - 1, g.ret)

\* `while (n < 0)`: the temporaries are n, thisYear and totalDays
RollBackward(t, n, thisYear, total) ==
  IF n < 0
  THEN BackwardStep(getLengthOfYear(t, thisYear - 1), n, thisYear, total)
  ELSE [t |-> t, n |-> n, thisYear |-> thisYear, totalDays |-> total]

\* lines 264-266, with g the object after getLengthOfYear(thisYear + 1)
ForwardStep(g, n, thisYear, total) ==
  IF g.err # "none"
  THEN [t |-> g, n |-> n, thisYear |-> thisYear + 1, totalDays |-> total]
  ELSE RollForward(g, n - g.ret, thisYear + 1, g.ret)

\* RollForward that advances this.startYear itself, without a temporary
RollForward_InPlace(t, n, thisYear, total) ==
  IF n >= total
  THEN ForwardStep(getLengthOfYear([t EXCEPT !.startYear = thisYear + 1], thisYear + 1),
                   n, thisYear, total)
  ELSE [t |-> t, n |-> n, thisYear |-> thisYear, totalDays |-> total]

\* `while (n >= totalDays)`
RollForward(t, n, thisYear, total) ==
  IF n >= total
  THEN ForwardStep(getLengthOfYear(t, thisYear + 1), n, thisYear, total)
  ELSE [t |-> t, n |-> n, thisYear |-> thisYear, totalDays |-> total]

\* CommitDay that leaves startYear at the year the call started in
CommitDay_KeepsStartYear(t, n, thisYear, total) ==
  [t EXCEPT !.currentDay = n, !.totalDays = total]

\* CommitDay that forgets totalDays
CommitDay_KeepsTotalDays(t, n, thisYear, total) ==
  [t EXCEPT !.currentDay = n, !.startYear = thisYear]

\* lines 269-273: the assignment that ends setCurrentDay
CommitDay(t, n, thisYear, total) ==
  [t EXCEPT !.currentDay = n, !.startYear = thisYear, !.totalDays = total]

\* after the forward loop
AfterForward(fwd) ==
  IF fwd.t.err # "none" THEN fwd.t
  ELSE CommitDay(fwd.t, fwd.n, fwd.thisYear, fwd.totalDays)

\* lines 257-273, with back the temporaries after the backward loop
AfterBackward(t, back) ==
  IF back.t.err # "none" THEN back.t
  ELSE IF back.n >= back.totalDays
       THEN IF t.startYear # back.thisYear THEN [back.t EXCEPT !.err = "Error"]
            ELSE AfterForward(RollForward(back.t, back.n, back.thisYear, back.totalDays))
       ELSE CommitDay(back.t, back.n, back.thisYear, back.totalDays)

\* lines 252-273, with first the object after getLengthOfYear(this.startYear)
AfterFirstYear(t, n, first) ==
  IF first.err # "none" THEN first
  ELSE AfterBackward(t, RollBackward(first, n, t.startYear, first.ret))

setCurrentDay(t, n) == AfterFirstYear(t, n, getLengthOfYear(t, t.startYear))

\* setCurrentDay called with any value: lines 242-246, then the above
setCurrentDayOf(t, a) ==
  IF a.type # "number" THEN [t EXCEPT !.err = "TypeError"] ELSE setCurrentDay(t, a.num)

(***************************************************************************)
(* setCurrentTime, adjustDay, adjustTime                                   *)
(***************************************************************************)
\* the % of JavaScript: the result has the sign of the dividend
JSRem(a, b) == IF a >= 0 THEN a % b ELSE 0 - ((0 - a) % b)

\* Math.trunc in place of Math.floor
MathFloorDiv_Truncates(a, b) == IF a >= 0 THEN a \div b ELSE 0 - ((0 - a) \div b)

\* Math.floor(a / b) for b > 0
MathFloorDiv(a, b) == a \div b

\* `if` in place of `while`
AddDaysWhileNegative_Once(n) == IF n < 0 THEN n + MetricsDay ELSE n

\* `while (n < 0) n += this.metrics["day"]`
RECURSIVE AddDaysWhileNegative(_)
AddDaysWhileNegative(n) == IF n < 0 THEN AddDaysWhileNegative(n + MetricsDay) ELSE n

\* setCurrentTime carrying the whole days of n over into currentDay
setCurrentTime_CarriesDays(t, n) ==
  [t EXCEPT !.currentTime = JSRem(AddDaysWhileNegative(n), MetricsDay),
            !.currentDay = t.currentDay + MathFloorDiv(n, MetricsDay)]

setCurrentTime(t, n) ==
  [t EXCEPT !.currentTime = JSRem(AddDaysWhileNegative(n), MetricsDay)]

\* setCurrentTime called with any value; there is no typeof check.  A string
\* of digits is not below 0, so the loop is skipped, and % converts it
setCurrentTimeOf(t, a) ==
  IF a.type = "number" THEN setCurrentTime(t, a.num)
  ELSE [t EXCEPT !.currentTime = JSRem(a.num, MetricsDay)]

adjustDay(t, n) == setCurrentDay(t, t.currentDay + n)

\* setCurrentTime(newTime) after a setCurrentDay that left the object as d:
\* it is not reached when setCurrentDay threw
ThenSetCurrentTime(d, newTime) ==
  IF d.err # "none" THEN d ELSE setCurrentTime(d, newTime)

adjustTime(t, n) ==
  ThenSetCurrentTime(
    setCurrentDay(t, t.currentDay + MathFloorDiv(t.currentTime + n, MetricsDay)),
    t.currentTime + n)

(***************************************************************************)
(* Utils.bsearch on an array of numbers with the default comparison.  The  *)
(* array is 0-based in the code and 1-based here: ary[mid] is ary[mid + 1].*)
(***************************************************************************)
\* line 50: (a, b) => (a < b ? -1 : a === b ? 0 : 1)
compareFn(a, b) == IF a < b THEN 0 - 1 ELSE IF a = b THEN 0 ELSE 1

\* LoopCondition without the last round, the one with low = high
LoopCondition_Strict(low, high) == low < high

\* line 52: while (low <= high)
LoopCondition(low, high) == low <= high

RECURSIVE BsearchLoop(_, _, _, _, _)

\* lines 54-68, with mid as line 53 computed it and comparison the result of
\* compareFn(value, ary[mid])
BsearchSwitch(ary, value, low, high, mid, comparison) ==
  CASE comparison = 0 - 1 -> BsearchLoop(ary, value, low, mid - 1, mid)
    [] comparison = 0     -> [err |-> "none", ret |-> mid]
    [] comparison = 1     -> BsearchLoop(ary, value, mid + 1, high, mid)
    [] OTHER              -> [err |-> "RangeError", ret |-> 0]

\* lines 53-54
BsearchProbe(ary, value, low, high, mid) ==
  BsearchSwitch(ary, value, low, high, mid, compareFn(value, ary[mid + 1]))

\* lines 52-71
BsearchLoop(ary, value, low, high, mid) ==
  IF LoopCondition(low, high)
  THEN BsearchProbe(ary, value, low, high, MathFloorDiv(low + high, 2))
  ELSE [err |-> "none", ret |-> 0 - mid]

\* lines 38-44, then the loop; ary is an array, so the check of lines 33-37
\* passes
bsearch(ary, value) ==
  IF Len(ary) - 1 < 0 THEN [err |-> "TypeError", ret |-> 0]
  ELSE BsearchLoop(ary, value, 0, Len(ary) - 1, 0)

\* the arrays bsearch is called on: in ascending order, no element twice,
\* the empty array among them
BsearchArrays ==
  { a \in UNION {[1 .. n -> 1 .. MaxVal] : n \in 0 .. MaxLen} :
      \A i \in 1 .. (Len(a) - 1) : a[i] < a[i + 1] }

BsearchIdle == [pc |-> "idle", ary |-> << >>, value |-> 0, ret |-> 0, err |-> "none"]
BsearchCalled(ary, value) ==
  [pc |-> "called", ary |-> ary, value |-> value, ret |-> 0, err |-> "none"]
BsearchReturned(b, r) == [b EXCEPT !.pc = "returned", !.ret = r.ret, !.err = r.err]

(***************************************************************************)
(* setCurrentDay and setCurrentTime one loop round at a time, as adjustDay *)
(* and adjustTime reach them too.  The generator gives year y the length   *)
(* lens[y % LensPeriod], positive for every year, and getLengthOfYear      *)
(* returns that length.  The record holds the object's fields, the         *)
(* argument, the temporaries n, thisYear and totalDays, the position in    *)
(* the code and the number of loop rounds run.                             *)
(***************************************************************************)
LoopIdle ==
  [ pc |-> "idle", op |-> "none", arg |-> 0, lens |-> << >>, startYear |-> 0,
    currentDay |-> 0, currentTime |-> 0, n |-> 0, thisYear |-> 0, totalDays |-> 0,
    rounds |-> 0 ]

LoopCalled(op, arg, lens, cd, ct) ==
  [ LoopIdle EXCEPT !.pc = "call", !.op = op, !.arg = arg, !.lens = lens,
                    !.currentDay = cd, !.currentTime = ct ]

LoopYearLength(l, year) == l.lens[year % LensPeriod]

\* the day setCurrentDay is called with: lines 289 and 297-299
DayArgument(l) ==
  CASE l.op = "adjustDay"  -> l.currentDay + l.arg
    [] l.op = "adjustTime" ->
         l.currentDay + MathFloorDiv(l.currentTime + l.arg, MetricsDay)
    [] OTHER               -> l.arg

\* the time setCurrentTime is called with: lines 296 and 300
TimeArgument(l) == IF l.op = "adjustTime" THEN l.currentTime + l.arg ELSE l.arg

\* lines 248-251
EnterDayLoops(l) ==
  [ l EXCEPT !.pc = "backward", !.n = DayArgument(l), !.thisYear = l.startYear,
             !.totalDays = LoopYearLength(l, l.startYear) ]

\* lines 253-255: one round of `while (n < 0)`
BackwardRound(l) ==
  [ l EXCEPT !.thisYear = l.thisYear - 1,
             !.totalDays = LoopYearLength(l, l.thisYear - 1),
             !.n = l.n + LoopYearLength(l, l.thisYear - 1),
             !.rounds = l.rounds + 1 ]

\* lines 257-262, once the backward loop is left
AfterBackwardLoop(l) ==
  [ l EXCEPT !.pc = IF l.n >= l.totalDays
                    THEN IF l.startYear # l.thisYear THEN "thrown" ELSE "forward"
                    ELSE "commit" ]

\* lines 264-266: one round of `while (n >= totalDays)`
ForwardRound(l) ==
  [ l EXCEPT !.thisYear = l.thisYear + 1,
             !.totalDays = LoopYearLength(l, l.thisYear + 1),
             !.n = l.n - LoopYearLength(l, l.thisYear + 1),
             !.rounds = l.rounds + 1 ]

\* lines 269-273, and for adjustTime line 300 after them
CommitAndGoOn(l) ==
  [ l EXCEPT !.currentDay = l.n, !.startYear = l.thisYear,
             !.pc = IF l.op = "adjustTime" THEN "time" ELSE "done",
             !.n = IF l.op = "adjustTime" THEN TimeArgument(l) ELSE l.n ]

\* TimeRound with n left as it is
TimeRound_KeepsN(l) == l

\* line 282: one round of `while (n < 0) n += this.metrics["day"]`
TimeRound(l) == [l EXCEPT !.n = l.n + MetricsDay, !.rounds = l.rounds + 1]

\* line 283
AfterTimeLoop(l) == [l EXCEPT !.currentTime = JSRem(l.n, MetricsDay), !.pc = "done"]

(***************************************************************************)
(* The constructor                                                         *)
(***************************************************************************)
\* `a || b` on numbers: 0 is falsy
OrElse(a, b) == IF a = 0 THEN b ELSE a

\* props.populateExtents is the generator and props.metrics the table with
\* "day" -> MetricsDay, so the checks of lines 147-153 pass; lines 170-175
\* only read the cache for the log line
\* lines 163-164: the two fields assigned before the first call
AssignOptions(t, props) ==
  [t EXCEPT !.metrics = DefaultMetrics,
            !.startYear = OrElse(props.startYear, FallbackStartYear)]

\* constructor with the time of day set before the day of the year
constructor_SetsTimeFirst(t, props) ==
  setCurrentDay(setCurrentTime(AssignOptions(t, props), OrElse(props.currentTime, 0)),
                OrElse(props.currentDay, 0))

constructor(t, props) ==
  ThenSetCurrentTime(
    setCurrentDay(AssignOptions(t, props), OrElse(props.currentDay, 0)),
    OrElse(props.currentTime, 0))

(***************************************************************************)
(* Actions                                                                 *)
(***************************************************************************)
\* the object after a call that ended as r: a call that throws keeps what it
\* had written to the fields and caches before the throw
Effect(r) ==
  /\ r.err # "OutOfModel"
  /\ \A y \in Years : r.genCalls[y] <= MaxGenCalls
  /\ genCalls' = r.genCalls
  /\ extentsByStart' = r.extentsByStart
  /\ extentsByName' = r.extentsByName
  /\ startYear' = r.startYear
  /\ totalDays' = r.totalDays
  /\ currentDay' = r.currentDay
  /\ currentTime' = r.currentTime
  /\ metrics' = r.metrics
  /\ thrown' = r.err
  /\ thrownIndex' = r.errIndex
  /\ pre' = Readable(This)
  /\ UNCHANGED <<gen, bs, loop>>

\* a constructor that throws leaves no usable object
ConstructorEffect(r) ==
  /\ Effect(r)
  /\ pc' = IF r.err = "none" THEN "ready" ELSE "failed"

Called(op, n) ==
  [op |-> op, n |-> n, type |-> "number", startYear |-> 0, currentDay |-> 0,
   currentTime |-> 0]
CalledWith(op, a) == [Called(op, a.num) EXCEPT !.type = a.type]

\* the fields as the class declares them (lines 130-137), before the
\* constructor body runs
FreshObject ==
  /\ genCalls = [y \in Years |-> 0]
  /\ extentsByStart = EmptyMap
  /\ extentsByName = EmptyMap
  /\ startYear = 0
  /\ totalDays = 0
  /\ currentDay = 0
  /\ currentTime = 0
  /\ metrics = EmptyMap
  /\ pc = "new"
  /\ thrown = "none"
  /\ thrownIndex = 0 - 1
  /\ call = Called("none", 0)
  /\ pre = [startYear |-> 0, totalDays |-> 0, currentDay |-> 0, currentTime |-> 0,
            cached |-> {}]

Init ==
  /\ gen \in Generators
  /\ FreshObject
  /\ bs = BsearchIdle
  /\ loop = LoopIdle

Construct ==
  /\ pc = "new"
  /\ \E sy \in Years, cd \in Args, ct \in Args :
       /\ ConstructorEffect(
            constructor(This, [startYear |-> sy, currentDay |-> cd, currentTime |-> ct]))
       /\ call' = [op |-> "constructor", n |-> 0, type |-> "number", startYear |-> sy,
                   currentDay |-> cd, currentTime |-> ct]

SetCurrentDay ==
  /\ pc = "ready"
  /\ \E a \in SetterArgs :
       /\ Effect(setCurrentDayOf(This, a))
       /\ call' = CalledWith("setCurrentDay", a)
  /\ UNCHANGED pc

SetCurrentTime ==
  /\ pc = "ready"
  /\ \E a \in SetterArgs :
       /\ Effect(setCurrentTimeOf(This, a))
       /\ call' = CalledWith("setCurrentTime", a)
  /\ UNCHANGED pc

AdjustDay ==
  /\ pc = "ready"
  /\ \E n \in Args :
       /\ Effect(adjustDay(This, n))
       /\ call' = Called("adjustDay", n)
  /\ UNCHANGED pc

AdjustTime ==
  /\ pc = "ready"
  /\ \E n \in Args :
       /\ Effect(adjustTime(This, n))
       /\ call' = Called("adjustTime", n)
  /\ UNCHANGED pc

Next == Construct \/ SetCurrentDay \/ SetCurrentTime \/ AdjustDay \/ AdjustTime

Spec == Init /\ [][Next]_vars

(***************************************************************************)
(* Utils.bsearch on its own: every array and value of the bounds, and the  *)
(* one step that runs the call.  No Calendar is constructed.               *)
(***************************************************************************)
InitBsearch ==
  /\ gen = [y \in Years |-> ArrayOf(<<Extent("A", 1)>>)]
  /\ FreshObject
  /\ bs \in {BsearchCalled(a, v) : a \in BsearchArrays, v \in 1 .. MaxVal}
  /\ loop = LoopIdle

Bsearch ==
  /\ bs.pc = "called"
  /\ bs' = BsearchReturned(bs, bsearch(bs.ary, bs.value))
  /\ UNCHANGED <<gen, genCalls, extentsByStart, extentsByName, startYear, totalDays,
                 currentDay, currentTime, metrics, pc, thrown, thrownIndex, call, pre,
                 loop>>

NextBsearch == Bsearch

SpecBsearch == InitBsearch /\ [][NextBsearch]_vars

(***************************************************************************)
(* The loops on their own: every operation, argument and generator of the  *)
(* bounds, and one step per loop round.  A call that has started keeps     *)
(* running, which is the fairness of the specification.                    *)
(***************************************************************************)
LoopGenerators == [0 .. (LensPeriod - 1) -> 1 .. MaxYearLen]

InitLoops ==
  /\ gen = [y \in Years |-> ArrayOf(<<Extent("A", 1)>>)]
  /\ FreshObject
  /\ bs = BsearchIdle
  /\ loop \in { LoopCalled(op, arg, lens, cd, ct) :
                  op \in {"setCurrentDay", "adjustDay", "adjustTime", "setCurrentTime"},
                  arg \in Args, lens \in LoopGenerators,
                  cd \in 0 .. (MaxYearLen - 1), ct \in 0 .. (MetricsDay - 1) }

LoopStep(l) ==
  /\ loop' = l
  /\ UNCHANGED <<gen, genCalls, extentsByStart, extentsByName, startYear, totalDays,
                 currentDay, currentTime, metrics, pc, thrown, thrownIndex, call, pre,
                 bs>>

EnterSetCurrentDay ==
  /\ loop.pc = "call" /\ loop.op # "setCurrentTime"
  /\ LoopStep(EnterDayLoops(loop))

BackwardIterate ==
  /\ loop.pc = "backward" /\ loop.n < 0
  /\ LoopStep(BackwardRound(loop))

BackwardDone ==
  /\ loop.pc = "backward" /\ ~(loop.n < 0)
  /\ LoopStep(AfterBackwardLoop(loop))

ForwardIterate ==
  /\ loop.pc = "forward" /\ loop.n >= loop.totalDays
  /\ LoopStep(ForwardRound(loop))

ForwardDone ==
  /\ loop.pc = "forward" /\ ~(loop.n >= loop.totalDays)
  /\ LoopStep([loop EXCEPT !.pc = "commit"])

Commit ==
  /\ loop.pc = "commit"
  /\ LoopStep(CommitAndGoOn(loop))

EnterSetCurrentTime ==
  /\ loop.pc = "call" /\ loop.op = "setCurrentTime"
  /\ LoopStep([loop EXCEPT !.pc = "time", !.n = TimeArgument(loop)])

TimeIterate ==
  /\ loop.pc = "time" /\ loop.n < 0
  /\ LoopStep(TimeRound(loop))

TimeDone ==
  /\ loop.pc = "time" /\ ~(loop.n < 0)
  /\ LoopStep(AfterTimeLoop(loop))

NextLoops ==
  \/ EnterSetCurrentDay \/ BackwardIterate \/ BackwardDone \/ ForwardIterate
  \/ ForwardDone \/ Commit \/ EnterSetCurrentTime \/ TimeIterate \/ TimeDone

SpecLoops == InitLoops /\ [][NextLoops]_vars /\ WF_vars(NextLoops)

TypeOK ==
  /\ pc \in {"new", "ready", "failed"}
  /\ thrown \in {"none", "TypeError", "Error"}
  /\ DOMAIN extentsByStart \subseteq Years
  /\ DOMAIN metrics \subseteq {"day"}

(***************************************************************************)
(* What the generator itself says of a year, computed from its result and  *)
(* not from the cache.                                                     *)
(***************************************************************************)
RECURSIVE SumLengths(_)
SumLengths(items) ==
  IF items = << >> THEN 0 ELSE Head(items).length + SumLengths(Tail(items))

IsValidYear(y) == y \in Years /\ gen[y] \in ValidGenResults
\* the generator's result for y is an array of objects
IsArrayOfObjects(y) ==
  /\ y \in Years /\ gen[y].isArray
  /\ \A i \in 1 .. Len(gen[y].items) : gen[y].items[i].type = "object"
YearLength(y) == IF IsArrayOfObjects(y) THEN SumLengths(gen[y].items) ELSE 0
AllYearsValid == \A y \in Years : IsValidYear(y)

Succeeded(ops) == pc = "ready" /\ call.op \in ops /\ thrown = "none"
DayOps == {"setCurrentDay", "adjustDay", "adjustTime"}

\* the day handed to setCurrentDay by the last setCurrentDay or adjustDay
Target == IF call.op = "adjustDay" THEN pre.currentDay + call.n ELSE call.n

(***************************************************************************)
(* C1: after construction and after any successful setCurrentDay,          *)
(* adjustDay and adjustTime, 0 <= currentDay < totalDays, for a generator  *)
(* whose years have different positive lengths.                            *)
(***************************************************************************)
C1_CurrentDayInRange ==
  (pc = "ready" /\ AllYearsValid) => (0 <= currentDay /\ currentDay < totalDays)

(***************************************************************************)
(* C2: adjustDay(n), n > 0, across exactly one year boundary gives         *)
(* currentDay = old currentDay + n - length of the year being left, and    *)
(* startYear + 1, also when the next year has another length.              *)
(***************************************************************************)
C2_ForwardOneYear ==
  ( /\ Succeeded({"adjustDay"})
    /\ call.n > 0
    /\ 0 <= pre.currentDay /\ pre.currentDay < YearLength(pre.startYear)
    /\ pre.currentDay + call.n >= YearLength(pre.startYear)
    /\ pre.currentDay + call.n - YearLength(pre.startYear) < YearLength(pre.startYear + 1) )
  => ( /\ currentDay = pre.currentDay + call.n - YearLength(pre.startYear)
       /\ startYear = pre.startYear + 1 )

(***************************************************************************)
(* C3: adjustDay(n) followed by adjustDay(-n) restores (startYear,         *)
(* currentDay), also across year boundaries of differing lengths.          *)
(***************************************************************************)
C3_RoundTrip ==
  pc = "ready" =>
    \A n \in Args :
      LET there == adjustDay(This, n)
          back == adjustDay(there, 0 - n)
      IN (there.err = "none" /\ back.err = "none")
         => (back.startYear = startYear /\ back.currentDay = currentDay)

(***************************************************************************)
(* C4: the generator is invoked at most once for each distinct year, also  *)
(* over operations that end in a validation error.                         *)
(***************************************************************************)
C4_GeneratorOncePerYear == \A y \in Years : genCalls[y] <= 1

(***************************************************************************)
(* C5: an operation that gets a non-sequence from the generator signals a  *)
(* type error, and after construction it leaves startYear, currentDay,     *)
(* totalDays and currentTime as they were.                                 *)
(***************************************************************************)
C5_NonSequenceLeavesState ==
  [][ (\E y \in Years : gen[y] = NotAnArray /\ genCalls'[y] = genCalls[y] + 1)
      => ( /\ thrown' = "TypeError"
           /\ pc = "ready" =>
                /\ startYear' = startYear
                /\ currentDay' = currentDay
                /\ totalDays' = totalDays
                /\ currentTime' = currentTime ) ]_vars

\* a call after construction failed on the non-sequence year after it had
\* resolved another year on its way
C5_Witness ==
  /\ pc = "ready" /\ thrown = "TypeError"
  /\ call.op \in DayOps
  /\ \E y \in Years : /\ gen[y] = NotAnArray /\ genCalls[y] >= 1
                      /\ \A z \in Years : z # y => IsValidYear(z)
  /\ DOMAIN extentsByStart # pre.cached

(***************************************************************************)
(* C6: after construction and after successful operations totalDays is the *)
(* sum of the extent lengths of the year in startYear.                     *)
(***************************************************************************)
C6_TotalDaysOfStartYear ==
  pc = "ready" => (IsArrayOfObjects(startYear) /\ totalDays = YearLength(startYear))

\* a successful call moved into a year of another length
C6_Witness ==
  /\ Succeeded(DayOps)
  /\ startYear # pre.startYear
  /\ totalDays # pre.totalDays

(***************************************************************************)
(* C7: after construction and after any setCurrentTime and adjustTime,     *)
(* 0 <= currentTime < metrics["day"].                                      *)
(***************************************************************************)
C7_CurrentTimeInRange ==
  pc = "ready" => (0 <= currentTime /\ currentTime < MetricsDay)

\* a call took the time more than a day below zero
C7_Witness ==
  /\ \/ Succeeded({"adjustTime"}) /\ pre.currentTime + call.n < 0 - MetricsDay
     \/ Succeeded({"setCurrentTime"}) /\ call.n < 0 - MetricsDay
  /\ currentTime > 0

(***************************************************************************)
(* C8: adjustTime(n) leaves currentTime at (old currentTime + n) modulo    *)
(* metrics["day"], not negative, and the day where                         *)
(* setCurrentDay(old currentDay + floor((old currentTime + n) /            *)
(* metrics["day"])) puts it.                                               *)
(***************************************************************************)
C8_AdjustTime ==
  Succeeded({"adjustTime"}) =>
    LET newTime == pre.currentTime + call.n
        before == [This EXCEPT !.startYear = pre.startYear,
                               !.currentDay = pre.currentDay,
                               !.totalDays = pre.totalDays,
                               !.currentTime = pre.currentTime]
        day == setCurrentDay(before, pre.currentDay + (newTime \div MetricsDay))
    IN /\ currentTime = newTime % MetricsDay
       /\ day.err = "none"
       /\ startYear = day.startYear
       /\ currentDay = day.currentDay

\* adjustTime went back more than one day, over a year boundary
C8_Witness ==
  /\ Succeeded({"adjustTime"})
  /\ (pre.currentTime + call.n) \div MetricsDay < 0 - 1
  /\ (pre.currentTime + call.n) % MetricsDay # 0
  /\ startYear < pre.startYear

(***************************************************************************)
(* C9: a target day below 0 rolls backward to (startYear - k, target + the *)
(* lengths of the k years before startYear), k >= 1 the smallest that      *)
(* makes the day non-negative.                                             *)
(***************************************************************************)
RECURSIVE SumOfYearsBefore(_, _)
SumOfYearsBefore(y, k) ==
  IF k = 0 THEN 0 ELSE YearLength(y - k) + SumOfYearsBefore(y, k - 1)

C9_BackwardRoll ==
  (Succeeded({"setCurrentDay", "adjustDay"}) /\ Target < 0) =>
    \E k \in 1 .. Cardinality(Years) :
      /\ Target + SumOfYearsBefore(pre.startYear, k) >= 0
      /\ \A j \in 1 .. (k - 1) : Target + SumOfYearsBefore(pre.startYear, j) < 0
      /\ startYear = pre.startYear - k
      /\ currentDay = Target + SumOfYearsBefore(pre.startYear, k)

\* a backward roll over two years of different lengths
C9_Witness ==
  /\ Succeeded({"setCurrentDay", "adjustDay"}) /\ Target < 0
  /\ startYear = pre.startYear - 2
  /\ YearLength(startYear) # YearLength(startYear + 1)

(***************************************************************************)
(* C10: for every startYear y in the options, 0 included, with a           *)
(* currentDay in range for year y, startYear after construction is y and   *)
(* totalDays is the generator's length of year y.                          *)
(***************************************************************************)
C10_StartYearOfOptions ==
  ( /\ pc = "ready" /\ call.op = "constructor"
    /\ 0 <= call.currentDay /\ call.currentDay < YearLength(call.startYear) )
  => (startYear = call.startYear /\ totalDays = YearLength(call.startYear))

(***************************************************************************)
(* C11: when the generator's sequence has an element without the extent    *)
(* shape (not an object, or an object without name or without length),     *)
(* resolving that year signals a type error that names the index of the    *)
(* element, and the year is not left populated.                            *)
(***************************************************************************)
\* every object of the model has a length
HasExtentShape(v) == v.type = "object" /\ v.name # "undefined"
IsMalformed(items) == \E i \in 1 .. Len(items) : ~HasExtentShape(items[i])
FirstMalformed(items) ==
  CHOOSE i \in 1 .. Len(items) :
    ~HasExtentShape(items[i]) /\ \A j \in 1 .. (i - 1) : HasExtentShape(items[j])

C11_MalformedElementRejected ==
  [][ \A y \in Years :
        (gen[y].isArray /\ IsMalformed(gen[y].items) /\ genCalls'[y] = genCalls[y] + 1)
        => ( /\ thrown' = "TypeError"
             /\ thrownIndex' = FirstMalformed(gen[y].items) - 1
             /\ y \notin DOMAIN extentsByStart' ) ]_vars

(***************************************************************************)
(* C12: a non-numeric argument to setCurrentDay or to setCurrentTime        *)
(* signals a type error and leaves startYear, currentDay, totalDays and    *)
(* currentTime unchanged.                                                  *)
(***************************************************************************)
C12_NonNumericArgumentRejected ==
  (pc = "ready" /\ call.op \in {"setCurrentDay", "setCurrentTime"} /\ call.type # "number")
  => ( /\ thrown = "TypeError"
       /\ startYear = pre.startYear
       /\ currentDay = pre.currentDay
       /\ totalDays = pre.totalDays
       /\ currentTime = pre.currentTime )

(***************************************************************************)
(* C13: in every reachable state, setCurrentDay(currentDay) leaves          *)
(* startYear, currentDay, totalDays and currentTime unchanged.             *)
(***************************************************************************)
C13_SetCurrentDayIdempotent ==
  (pc = "ready" /\ call.op = "setCurrentDay" /\ call.type = "number"
     /\ call.n = pre.currentDay)
  => ( /\ startYear = pre.startYear
       /\ currentDay = pre.currentDay
       /\ totalDays = pre.totalDays
       /\ currentTime = pre.currentTime )

(***************************************************************************)
(* C14: for every valid non-empty extent list returned for a year, the     *)
(* i-th resolved extent's startDay is the sum of the lengths of the        *)
(* extents before it (0 for the first), and the year's length is the sum   *)
(* of all extent lengths.                                                  *)
(***************************************************************************)
C14_StartDaysArePrefixSums ==
  \A y \in DOMAIN extentsByStart :
    IsValidYear(y) =>
      /\ Len(extentsByStart[y]) = Len(gen[y].items)
      /\ \A i \in 1 .. Len(extentsByStart[y]) :
           /\ extentsByStart[y][i].originalExt = gen[y].items[i]
           /\ extentsByStart[y][i].startDay = SumLengths(SubSeq(gen[y].items, 1, i - 1))
      /\ getLengthOfYear(This, y).err = "none"
      /\ getLengthOfYear(This, y).ret = SumLengths(gen[y].items)

\* a year of two extents has been resolved, the second starting after the
\* two days of the first
C14_Witness ==
  /\ pc = "ready"
  /\ \E y \in DOMAIN extentsByStart :
       /\ IsValidYear(y) /\ Len(extentsByStart[y]) = 2
       /\ extentsByStart[y][1].startDay = 0
       /\ extentsByStart[y][2].startDay = 2

(***************************************************************************)
(* C15: constructing a Calendar with a generator that returns a non-array  *)
(* signals a type error and throws before any field of the Calendar        *)
(* (startYear, totalDays, currentDay, currentTime, metrics, cache) has     *)
(* been mutated from its initial value.                                    *)
(***************************************************************************)
\* the constructor ran last and asked the generator for a year for which it
\* returns a non-array
ConstructorMetNonArray ==
  /\ call.op = "constructor"
  /\ \E y \in Years : ~gen[y].isArray /\ genCalls[y] > 0

InsertionIndex(ary, value) == Cardinality({i \in 1 .. Len(ary) : ary[i] < value})
Occurs(ary, value) == \E i \in 1 .. Len(ary) : ary[i] = value

C16_AbsentGivesNegatedInsertionIndex ==
  (bs.pc = "returned" /\ Len(bs.ary) > 0 /\ ~Occurs(bs.ary, bs.value))
  => (bs.err = "none" /\ bs.ret = 0 - InsertionIndex(bs.ary, bs.value))

(***************************************************************************)
(* C17: for every non-empty ascending array of distinct elements and every *)
(* value equal to some element, bsearch returns the index of that element, *)
(* at the first, a middle or the last position alike.                      *)
(***************************************************************************)
C17_PresentGivesIndex ==
  (bs.pc = "returned" /\ Occurs(bs.ary, bs.value))
  => ( /\ bs.err = "none"
       /\ bs.ret \in 0 .. (Len(bs.ary) - 1)
       /\ bs.ary[bs.ret + 1] = bs.value )

\* the value was found at the last position of an array of three
C17_Witness ==
  /\ bs.pc = "returned" /\ Len(bs.ary) = 3
  /\ bs.ary[3] = bs.value
  /\ bs.ret = 2

(***************************************************************************)
(* C18: in every reachable state, also after a resolution that failed      *)
(* validation part-way through a generator's list, the two cache views     *)
(* agree: a by-name entry for (name, year) exists if and only if that year *)
(* is populated in the by-year view and holds an extent with that name.    *)
(***************************************************************************)
HasByName(name, y) == name \in DOMAIN extentsByName /\ y \in DOMAIN extentsByName[name]
HasByStart(name, y) ==
  /\ y \in DOMAIN extentsByStart
  /\ \E i \in 1 .. Len(extentsByStart[y]) : extentsByStart[y][i].originalExt.name = name
ExtentNames ==
  DOMAIN extentsByName
    \cup {gen[y].items[i].name : <<y, i>> \in
            {p \in Years \X (1 .. 2) : p[2] <= Len(gen[p[1]].items)}}

C18_CacheViewsAgree ==
  pc = "ready" =>
    \A name \in ExtentNames, y \in Years : HasByName(name, y) <=> HasByStart(name, y)

(***************************************************************************)
(* C19: once a year has been populated in the cache, its resolved extent   *)
(* list stays identical in every later state and the year is never         *)
(* removed; the generator is not asked for it again, so what it would      *)
(* return does not matter.                                                 *)
(***************************************************************************)
C19_CachedYearsAreStable ==
  [][ \A y \in DOMAIN extentsByStart :
        /\ y \in DOMAIN extentsByStart'
        /\ extentsByStart'[y] = extentsByStart[y]
        /\ genCalls'[y] = genCalls[y] ]_vars

\* an operation after the constructor added a year to a cache that already
\* held one
C19_Witness ==
  /\ pc = "ready" /\ call.op # "constructor"
  /\ pre.cached # {}
  /\ pre.cached \subseteq DOMAIN extentsByStart
  /\ pre.cached # DOMAIN extentsByStart

(***************************************************************************)
(* C20: setCurrentTime(n) changes only currentTime: for every integer n,   *)
(* n < 0 and n >= metrics["day"] included, it leaves startYear,            *)
(* currentDay, totalDays and the extent cache unchanged; no day rolls over.*)
(***************************************************************************)
C20_SetCurrentTimeChangesOnlyTime ==
  [][ (call'.op = "setCurrentTime" /\ call'.type = "number")
      => ( /\ thrown' = "none"
           /\ UNCHANGED <<startYear, currentDay, totalDays, extentsByStart,
                          extentsByName, genCalls>> ) ]_vars

\* setCurrentTime was given a time outside the day, the time of day changed
\* and the day did not
C20_Witness ==
  /\ Succeeded({"setCurrentTime"}) /\ call.type = "number"
  /\ (call.n < 0 \/ call.n >= MetricsDay)
  /\ currentTime # pre.currentTime
  /\ currentDay = pre.currentDay /\ startYear = pre.startYear
  /\ totalDays = pre.totalDays /\ DOMAIN extentsByStart = pre.cached

(***************************************************************************)
(* C21: through any sequence of public operations on a Calendar whose      *)
(* generator returns valid extent lists with positive lengths, neither     *)
(* internal-consistency error is raised: buildExtents is never called for  *)
(* a year already cached, and no setCurrentDay call needs forward rollover *)
(* after it has rolled backward.                                           *)
(***************************************************************************)
C21_NoInternalError == AllYearsValid => thrown # "Error"

\* a call rolled backward into a year the cache already held, and returned
C21_Witness ==
  /\ AllYearsValid
  /\ Succeeded({"setCurrentDay", "adjustDay"}) /\ Target < 0
  /\ startYear < pre.startYear
  /\ startYear \in pre.cached

(***************************************************************************)
(* C22: for a generator whose every year has positive total length and a   *)
(* positive day metric, every call of setCurrentDay, adjustDay, adjustTime *)
(* and setCurrentTime with an integer argument terminates: the backward    *)
(* and forward rollover loops and the negative-time loop each finish after *)
(* finitely many rounds.                                                   *)
(***************************************************************************)
C22_EveryCallTerminates == (loop.pc = "call") ~> (loop.pc \in {"done", "thrown"})

\* an adjustTime that has returned after rounds of a rollover loop and of
\* the negative-time loop
C22_Witness ==
  /\ loop.pc = "done" /\ loop.op = "adjustTime"
  /\ loop.arg < 0 - MetricsDay
  /\ loop.rounds >= 3
  /\ loop.startYear < 0

(***************************************************************************)
(* C23: if the generator gives every year the same positive total length   *)
(* L, then after any sequence of setCurrentDay, adjustDay and adjustTime   *)
(* calls 0 <= currentDay < L, and adjustDay(n) changes the absolute day    *)
(* number startYear * L + currentDay by exactly n.                         *)
(***************************************************************************)
\* the years the Calendar can ask the generator for: year 0 is replaced by
\* FallbackStartYear before the first request
AskedYears == Years \ {0}
UniformLength == YearLength(FallbackStartYear)
AllYearsUniform ==
  \A y \in AskedYears : IsValidYear(y) /\ YearLength(y) = UniformLength
AbsoluteDay(sy, cd) == sy * UniformLength + cd

C23_UniformYearsAbsoluteDay ==
  (pc = "ready" /\ AllYearsUniform) =>
    /\ 0 <= currentDay /\ currentDay < UniformLength
    /\ Succeeded({"adjustDay"}) =>
         AbsoluteDay(startYear, currentDay)
           = AbsoluteDay(pre.startYear, pre.currentDay) + call.n

\* with every year of three days, adjustDay went forward into the next
\* year and did not land on its first day
C23_Witness ==
  /\ AllYearsUniform /\ UniformLength = 3
  /\ Succeeded({"adjustDay"}) /\ call.n > 0
  /\ startYear = pre.startYear + 1
  /\ currentDay > 0
====
